---- MODULE Spec2Model ----
(***************************************************************************)
(* A model of the person-track labeling tool (src/tool.py): the track list *)
(* discovered on disk, the label map and its CSV mirror, the gender / age  *)
(* form with the Save & Next gate, and the navigation handlers.            *)
(*                                                                         *)
(* Text is modelled as a sequence of one-character strings, so that the    *)
(* conversions of the program (float(), str(), the csv writer and reader,  *)
(* str.lower(), str.endswith(), sorted()) are computed, not assumed.       *)
(***************************************************************************)
EXTENDS Integers, Sequences, FiniteSets, TLC

(***************************************************************************)
(* Characters and text                                                     *)
(***************************************************************************)
CR == "\r"
LF == "\n"
QUOTE == "\""
COMMA == ","

\* The characters the model uses, in code point order.
Alphabet ==
    << LF, CR, " ", QUOTE, COMMA, "-", ".",
       "0", "1", "2", "3", "4", "5", "6", "7", "8", "9",
       "G", "J", "N", "P",
       "_", "a", "b", "c", "d", "e", "f", "g", "i", "j", "k", "l", "m", "n", "p",
       "r", "t", "x" >>

\* ord(c), up to an order-preserving renumbering.
Ord(c) == CHOOSE i \in 1..Len(Alphabet) : Alphabet[i] = c

\* str.lower() on one character.
LowerChar(c) ==
    CASE c = "G" -> "g"
      [] c = "J" -> "j"
      [] c = "N" -> "n"
      [] c = "P" -> "p"
      [] OTHER -> c

\* str.lower()
Lower(s) == [i \in 1..Len(s) |-> LowerChar(s[i])]

\* str.endswith(suffix)
EndsWith(s, suffix) ==
    /\ Len(s) >= Len(suffix)
    /\ SubSeq(s, Len(s) - Len(suffix) + 1, Len(s)) = suffix

\* Python's order on str: lexicographic by code point, a proper prefix first.
RECURSIVE StrLess(_, _)
StrLess(s, t) ==
    IF t = <<>> THEN FALSE
    ELSE IF s = <<>> THEN TRUE
    ELSE IF s[1] # t[1] THEN Ord(s[1]) < Ord(t[1])
    ELSE StrLess(Tail(s), Tail(t))

\* sorted(names) for a set of distinct strings (os.listdir yields distinct names).
RECURSIVE Sorted(_)
Sorted(names) ==
    IF names = {} THEN <<>>
    ELSE LET least == CHOOSE s \in names : \A t \in names \ {s} : StrLess(s, t)
         IN <<least>> \o Sorted(names \ {least})

\* str.strip(): the model's only whitespace characters are " ", CR and LF.
IsSpace(c) == c \in {" ", CR, LF}

Strip(s) ==
    LET inked == {i \in 1..Len(s) : ~IsSpace(s[i])}
    IN IF inked = {} THEN <<>>
       ELSE SubSeq(s, CHOOSE i \in inked : \A j \in inked : i <= j,
                      CHOOSE i \in inked : \A j \in inked : j <= i)

(***************************************************************************)
(* float(text) and str(number)                                             *)
(*                                                                         *)
(* A float is [kind |-> "num", neg, mag] with mag its magnitude in tenths  *)
(* (neg keeps the sign of -0.0), or [kind |-> "nan"], or                   *)
(* [kind |-> "inf", neg].  NoFloat stands for ValueError.  The decimal     *)
(* texts of the model carry at most one fractional digit, so the magnitude *)
(* in tenths is exact.                                                     *)
(***************************************************************************)

Digits == <<"0", "1", "2", "3", "4", "5", "6", "7", "8", "9">>
DigitSet == {"0", "1", "2", "3", "4", "5", "6", "7", "8", "9"}
IsDigit(c) == c \in DigitSet
DigitVal(c) ==
    CASE c = "0" -> 0 [] c = "1" -> 1 [] c = "2" -> 2 [] c = "3" -> 3 [] c = "4" -> 4
      [] c = "5" -> 5 [] c = "6" -> 6 [] c = "7" -> 7 [] c = "8" -> 8 [] c = "9" -> 9

NoFloat == [kind |-> "ValueError"]
Num(neg, mag) == [kind |-> "num", neg |-> neg, mag |-> mag]
\* A Python int, as passed by skip_track.
Int_(neg, mag) == [kind |-> "int", neg |-> neg, mag |-> mag]
NaN == [kind |-> "nan"]
Inf(neg) == [kind |-> "inf", neg |-> neg]

AllDigits(s) == \A i \in 1..Len(s) : IsDigit(s[i])

RECURSIVE DecVal(_)
DecVal(s) == IF s = <<>> THEN 0 ELSE 10 * DecVal(SubSeq(s, 1, Len(s) - 1)) + DigitVal(s[Len(s)])

\* str.find("."), counted from 1: 0 when there is no point.
DotAt(s) ==
    LET dots == {i \in 1..Len(s) : s[i] = "."}
    IN IF dots = {} THEN 0 ELSE CHOOSE i \in dots : \A j \in dots : i <= j

\* The unsigned body of a float literal: digits, optionally a point and digits,
\* with at least one digit in all; or one of the words nan and inf.
ParseUnsigned(neg, s) ==
    IF Lower(s) = <<"n", "a", "n">> THEN NaN
    ELSE IF Lower(s) = <<"i", "n", "f">> THEN Inf(neg)
    ELSE LET d == DotAt(s)
             ip == IF d = 0 THEN s ELSE SubSeq(s, 1, d - 1)
             fp == IF d = 0 THEN <<>> ELSE SubSeq(s, d + 1, Len(s))
         IN IF /\ AllDigits(ip)
               /\ AllDigits(fp)
               /\ Len(ip) + Len(fp) > 0
               /\ Len(fp) <= 1
            THEN Num(neg, DecVal(ip) * 10
                          + (IF fp = <<>> THEN 0 ELSE DecVal(fp)))
            ELSE NoFloat

\* float(text): surrounding whitespace is ignored, then an optional sign.
ParseFloat(text) ==
    LET s == Strip(text)
    IN IF s = <<>> THEN NoFloat
       ELSE IF s[1] = "-" THEN ParseUnsigned(TRUE, Tail(s))
       ELSE ParseUnsigned(FALSE, s)

\* isinstance(v, (int, float))
IsNumber(v) == v.kind \in {"int", "num", "nan", "inf"}

\* float(v) of a number
ToFloat(v) == IF v.kind = "int" THEN Num(v.neg, v.mag) ELSE v

\* Comparisons of a float with the literals of the program (mag in tenths).
FloatEq(v, neg, mag) ==
    /\ v.kind = "num"
    /\ v.mag = mag
    /\ (mag = 0 \/ v.neg = neg)

FloatGt(v, mag) ==
    \/ v.kind = "inf" /\ ~v.neg
    \/ v.kind = "num" /\ ~v.neg /\ v.mag > mag

FloatLt(v, mag) ==
    \/ v.kind = "inf" /\ v.neg
    \/ v.kind = "num" /\ (v.neg \/ v.mag < mag)

RECURSIVE NatStr(_)
NatStr(n) == IF n < 10 THEN <<Digits[n + 1]>> ELSE NatStr(n \div 10) \o <<Digits[(n % 10) + 1]>>

\* str(x) of a number: an int prints its digits, a float its repr, which keeps
\* the sign, the integer part and the fraction.
NumStr(v) ==
    CASE v.kind = "nan" -> <<"n", "a", "n">>
      [] v.kind = "int" -> (IF v.neg THEN <<"-">> ELSE <<>>) \o NatStr(v.mag \div 10)
      [] v.kind = "inf" -> (IF v.neg THEN <<"-">> ELSE <<>>) \o <<"i", "n", "f">>
      [] OTHER -> (IF v.neg THEN <<"-">> ELSE <<>>)
                  \o NatStr(v.mag \div 10) \o <<".">> \o NatStr(v.mag % 10)

(***************************************************************************)
(* The csv module, as the program uses it: csv.writer with the default     *)
(* dialect (QUOTE_MINIMAL, doubled quotes, CR LF after each row) on a file *)
(* opened with newline="", and csv.reader on a file opened in text mode,   *)
(* which turns CR LF and CR into LF before the reader sees them.           *)
(***************************************************************************)
NeedsQuote(f) == \E i \in 1..Len(f) : f[i] \in {COMMA, QUOTE, CR, LF}

RECURSIVE DoubleQuotes(_)
DoubleQuotes(f) ==
    IF f = <<>> THEN <<>>
    ELSE (IF f[1] = QUOTE THEN <<QUOTE, QUOTE>> ELSE <<f[1]>>) \o DoubleQuotes(Tail(f))

CsvField_mutant(f) == f

CsvField(f) == IF NeedsQuote(f) THEN <<QUOTE>> \o DoubleQuotes(f) \o <<QUOTE>> ELSE f

RECURSIVE JoinFields(_)
JoinFields(row) ==
    IF Len(row) = 1 THEN CsvField(row[1])
    ELSE CsvField(row[1]) \o <<COMMA>> \o JoinFields(Tail(row))

\* writer.writerow(row), for the four-field rows the program writes.
writerow(row) == JoinFields(row) \o <<CR, LF>>

\* Text-mode reading, universal newlines: CR LF and a lone CR become LF.
RECURSIVE TranslateNewlines(_)
TranslateNewlines(s) ==
    IF \A i \in 1..Len(s) : s[i] # CR THEN s
    ELSE LET i == CHOOSE k \in 1..Len(s) : s[k] = CR /\ \A j \in 1..(k - 1) : s[j] # CR
             rest == IF i < Len(s) /\ s[i + 1] = LF THEN i + 2 ELSE i + 1
         IN SubSeq(s, 1, i - 1) \o <<LF>> \o TranslateNewlines(SubSeq(s, rest, Len(s)))

\* csv.reader's automaton within one field, from position i on: st is its state
\* and fld the field read so far.  It ends the field at a comma, at the end of
\* the line or at the end of the text, and says which and where.
RECURSIVE ReadField(_, _, _, _)
ReadField(s, i, st, fld) ==
    IF i > Len(s) THEN [fld |-> fld, next |-> i, end |-> "eof"]
    ELSE LET c == s[i]
         IN CASE st = "start_field" /\ c = QUOTE ->
                     ReadField(s, i + 1, "in_quoted", fld)
              [] st = "in_quoted" /\ c = QUOTE ->
                     ReadField(s, i + 1, "quote_in_quoted", fld)
              [] st = "in_quoted" /\ c # QUOTE ->
                     ReadField(s, i + 1, "in_quoted", Append(fld, c))
              [] st = "quote_in_quoted" /\ c = QUOTE ->
                     ReadField(s, i + 1, "in_quoted", Append(fld, c))
              [] st = "in_field" /\ c = QUOTE ->
                     ReadField(s, i + 1, "in_field", Append(fld, c))
              [] st # "in_quoted" /\ c = COMMA ->
                     [fld |-> fld, next |-> i + 1, end |-> "comma"]
              [] st # "in_quoted" /\ c = LF ->
                     [fld |-> fld, next |-> i + 1, end |-> "eol"]
              [] OTHER ->
                     ReadField(s, i + 1, "in_field", Append(fld, c))

\* The fields of one record, from position i on.
RECURSIVE ReadRecord(_, _, _)
ReadRecord(s, i, row) ==
    LET f == ReadField(s, i, "start_field", <<>>)
    IN IF f.end = "comma" THEN ReadRecord(s, f.next, Append(row, f.fld))
       ELSE [row |-> Append(row, f.fld), next |-> f.next]

\* The records from position i on: an empty line is an empty record.
RECURSIVE ReadRecords(_, _, _)
ReadRecords(s, i, rows) ==
    IF i > Len(s) THEN rows
    ELSE IF s[i] = LF THEN ReadRecords(s, i + 1, Append(rows, <<>>))
    ELSE LET r == ReadRecord(s, i, <<>>)
         IN ReadRecords(s, r.next, Append(rows, r.row))

\* list(csv.reader(f)) for a file opened in text mode.
reader(data) == ReadRecords(TranslateNewlines(data), 1, <<>>)

(***************************************************************************)
(* The label map: a dict keyed by <<camera_id, track_id>>, kept as the     *)
(* sequence of its <<key, value>> items in insertion order.                *)
(***************************************************************************)
Keys(d) == {d[i][1] : i \in 1..Len(d)}
Has(d, k) == k \in Keys(d)
Pos(d, k) == CHOOSE i \in 1..Len(d) : d[i][1] = k
Get(d, k) == d[Pos(d, k)][2]
\* d[k] = v
Put(d, k, v) == IF Has(d, k) THEN [d EXCEPT ![Pos(d, k)] = <<k, v>>] ELSE Append(d, <<k, v>>)
\* del d[k], for a key of d
Del(d, k) == SubSeq(d, 1, Pos(d, k) - 1) \o SubSeq(d, Pos(d, k) + 1, Len(d))

Header ==
    << <<"c", "a", "m", "e", "r", "a", "_", "i", "d">>,
       <<"t", "r", "a", "c", "k", "_", "i", "d">>,
       <<"g", "e", "n", "d", "e", "r">>,
       <<"a", "g", "e">> >>

RECURSIVE WriteRows(_)
WriteRows(d) ==
    IF d = <<>> THEN <<>>
    ELSE writerow(<<d[1][1][1], d[1][1][2], d[1][2][1], d[1][2][2]>>) \o WriteRows(Tail(d))

HeaderLine == writerow(Header)

WriteCsv_mutant(d) == [exists |-> TRUE, data |-> WriteRows(d)]

\* The file the program leaves after open(output_csv, "w") and its writerow calls.
WriteCsv(d) == [exists |-> TRUE, data |-> HeaderLine \o WriteRows(d)]

RECURSIVE LoadRows(_, _)
LoadRows(rows, d) ==
    IF rows = <<>> THEN d
    ELSE LET row == rows[1]
         IN IF Len(row) < 4 THEN LoadRows(Tail(rows), d)
            ELSE LoadRows(Tail(rows), Put(d, <<row[1], row[2]>>, <<row[3], row[4]>>))

load_existing_labels(file) ==
    IF ~file.exists THEN <<>>
    ELSE LET rows == reader(file.data)
         IN IF rows = <<>> \/ rows[1] = <<>> THEN <<>>
            ELSE LoadRows(Tail(rows), <<>>)

(***************************************************************************)
(* The directory tree under root_folder: a set of entries, each a path     *)
(* (the names from the root down) and whether it is a directory.           *)
(***************************************************************************)
IsPrefix(p, q) == Len(p) <= Len(q) /\ SubSeq(q, 1, Len(p)) = p

listdir(d, p) == {e.path[Len(p) + 1] : e \in {x \in d : Len(x.path) = Len(p) + 1 /\ IsPrefix(p, x.path)}}

isdir(d, p) == \E e \in d : e.path = p /\ e.isdir

\* shutil.rmtree(p), succeeding
rmtree(d, p) == {e \in d : ~IsPrefix(p, e.path)}

ImageExts == { <<".", "j", "p", "g">>, <<".", "j", "p", "e", "g">>, <<".", "p", "n", "g">> }

IsImageName_mutant(f) == \E ext \in ImageExts : EndsWith(f, ext)

\* f.lower().endswith((".jpg", ".jpeg", ".png"))
IsImageName(f) == \E ext \in ImageExts : EndsWith(Lower(f), ext)

image_paths(d, cam, tid) ==
    LET names == SelectSeq(Sorted(listdir(d, <<cam, tid>>)), IsImageName)
    IN [i \in 1..Len(names) |-> <<cam, tid, names[i]>>]

RECURSIVE TracksOfCamera(_, _, _)
TracksOfCamera(d, cam, tids) ==
    IF tids = <<>> THEN <<>>
    ELSE (IF isdir(d, <<cam, tids[1]>>) /\ image_paths(d, cam, tids[1]) # <<>>
          THEN << <<cam, tids[1], image_paths(d, cam, tids[1])>> >>
          ELSE <<>>)
         \o TracksOfCamera(d, cam, Tail(tids))

RECURSIVE TracksOfCameras(_, _)
TracksOfCameras(d, cams) ==
    IF cams = <<>> THEN <<>>
    ELSE (IF isdir(d, <<cams[1]>>)
          THEN TracksOfCamera(d, cams[1], Sorted(listdir(d, <<cams[1]>>)))
          ELSE <<>>)
         \o TracksOfCameras(d, Tail(cams))

get_tracks(d) == TracksOfCameras(d, Sorted(listdir(d, <<>>)))

(***************************************************************************)
(* Inputs of the model                                                     *)
(***************************************************************************)
\* The largest value the model puts into the "Go to track" spinbox.
MaxGoto == 3

Male == <<"m", "a", "l", "e">>
Female == <<"f", "e", "m", "a", "l", "e">>

File(path) == [path |-> path, isdir |-> FALSE]
Dir(path) == [path |-> path, isdir |-> TRUE]

\* No qualifying track: a camera whose only track directory holds no image, and
\* a plain file where a camera directory could be.
TreeNone ==
    { Dir(<< <<"a">> >>), Dir(<< <<"a">>, <<"1">> >>),
      File(<< <<"a">>, <<"1">>, <<"n", ".", "t", "x", "t">> >>),
      File(<< <<"b">> >>) }

\* Two tracks of one camera, listed by the order on text ("10" before "2"),
\* beside a directory without images, a file among the tracks, a file among the
\* cameras, and names that only look like images.
TreeTwo ==
    { Dir(<< <<"b">> >>),
      Dir(<< <<"b">>, <<"2">> >>),
      File(<< <<"b">>, <<"2">>, <<"p", ".", "J", "P", "G">> >>),
      Dir(<< <<"b">>, <<"1", "0">> >>),
      File(<< <<"b">>, <<"1", "0">>, <<"t", ".", "p", "n", "g">> >>),
      File(<< <<"b">>, <<"1", "0">>, <<"n", ".", "t", "x", "t">> >>),
      Dir(<< <<"b">>, <<"e">> >>),
      File(<< <<"b">>, <<"e">>, <<"j", "p", "g">> >>),
      File(<< <<"b">>, <<"f", ".", "p", "n", "g">> >>),
      File(<< <<"a">> >>) }

\* Two cameras, one name a prefix of the other, with names the csv writer has
\* to quote.
TreeCameras ==
    { Dir(<< <<"a", COMMA>> >>), Dir(<< <<"a", COMMA>>, <<QUOTE, "1">> >>),
      File(<< <<"a", COMMA>>, <<QUOTE, "1">>, <<"e", ".", "j", "p", "e", "g">> >>),
      Dir(<< <<"a">> >>), Dir(<< <<"a">>, <<"2">> >>),
      File(<< <<"a">>, <<"2">>, <<"p", ".", "j", "p", "g">> >>) }

\* The directory trees the program is started on.
Trees == {TreeNone, TreeTwo, TreeCameras}

\* A track of five images and one of two, for the grid of images.
TreeGallery ==
    { Dir(<< <<"c">> >>), Dir(<< <<"c">>, <<"1">> >>), Dir(<< <<"c">>, <<"2">> >>),
      File(<< <<"c">>, <<"1">>, <<"a", ".", "j", "p", "g">> >>),
      File(<< <<"c">>, <<"1">>, <<"b", ".", "j", "p", "g">> >>),
      File(<< <<"c">>, <<"1">>, <<"c", ".", "j", "p", "g">> >>),
      File(<< <<"c">>, <<"1">>, <<"d", ".", "j", "p", "g">> >>),
      File(<< <<"c">>, <<"1">>, <<"e", ".", "j", "p", "g">> >>),
      File(<< <<"c">>, <<"2">>, <<"a", ".", "p", "n", "g">> >>),
      File(<< <<"c">>, <<"2">>, <<"b", ".", "p", "n", "g">> >>) }

\* The widest canvas of the model, in pixels, and the width of the canvas in
\* the runs that do not resize the window.
MaxWidth == 620
StartWidth == MaxWidth

TrackKey(tr, i) == <<tr[i][1], tr[i][2]>>

NoFile == [exists |-> FALSE, data |-> <<>>]
EmptyFile == [exists |-> TRUE, data |-> <<>>]

\* A file an earlier session of the program left: the first track labelled.
SessionFile(tr) ==
    WriteCsv(IF tr = <<>> THEN <<>>
             ELSE << <<TrackKey(tr, 1), <<Male, <<"5", "0", ".", "0">> >> >> >>)

\* A file edited by hand: LF line ends, a row of three fields, a row for a
\* track that is not on disk, and the first track with an age written "50".
EditedFile(tr) ==
    [exists |-> TRUE,
     data |-> JoinFields(Header) \o <<LF>>
              \o <<"b", COMMA, "2", COMMA, "m", "a", "l", "e", LF>>
              \o <<"c", COMMA, "1", COMMA, COMMA, "-", "1", LF>>
              \o (IF tr = <<>> THEN <<>>
                  ELSE JoinFields(<<tr[1][1], tr[1][2], Female, <<"5", "0">> >>) \o <<LF>>)]

CleanFiles == {NoFile, EmptyFile}
InitialFiles(tr) == CleanFiles \cup {WriteCsv(<<>>), SessionFile(tr), EditedFile(tr)}

\* What the user may try to put into the age entry.
AgeTexts ==
    { <<>>, <<"-">>, <<" ", "-", "1", ".", "0">>, <<"5", "0">>,
      <<"1", "0", "0", ".", "5">>, <<"1", "5", "0">>, <<"n", "a", "N">> }

\* The texts the gender and age variables of the model hold: what the user
\* enters, what _save_label stores of it, and what the initial files hold.
FormGenders == {<<>>, Male, Female}
FormAges ==
    AgeTexts \cup { <<"-", "1">>, <<"5", "0", ".", "0">>, <<"1", "0", "0", ".", "5">> }

(***************************************************************************)
(* The program's state                                                     *)
(***************************************************************************)
VARIABLES
    disk,                 \* the directory tree under root_folder
    csv_file,             \* the file output_csv: [exists, data]
    tracks,               \* self.tracks: <<camera_id, track_id, image_paths>>
    n_tracks,             \* self.n_tracks
    labeled_data,         \* self.labeled_data
    current_track_index,  \* self.current_track_index
    gender_var,           \* self.gender_var
    age_var,              \* self.age_var
    save_state,           \* self.save_next_button["state"]
    track_rects,          \* len(self.track_rects): rectangle i stands for track i
    canvas_width,         \* self.canvas.winfo_width()
    img_labels,           \* self.img_labels: where _flow_images placed each label
    last                  \* the handler that ran last and how it ended

vars == <<disk, csv_file, tracks, n_tracks, labeled_data, current_track_index,
          gender_var, age_var, save_state, track_rects, canvas_width,
          img_labels, last>>

form == <<gender_var, age_var, save_state>>

\* last: how the handler that ran last ended, for the handlers that store or
\* remove a label, move to a requested track or can fail; the others (the form,
\* prev_track, the progress bar) leave Quiet.
Ended(op, result) == [op |-> op, result |-> result]
Quiet == Ended("", "ok")

(***************************************************************************)
(* NumericEntry._validate                                                  *)
(***************************************************************************)
validate(proposed_text) ==
    IF proposed_text = <<>> THEN TRUE ELSE ParseFloat(proposed_text) # NoFloat

\* The texts of the model that the entry accepts.
AcceptedAgeTexts == {text \in AgeTexts : validate(text)}

(***************************************************************************)
(* _update_save_button_state: the state it gives the Save & Next button    *)
(***************************************************************************)
save_button_state_mutant(gender, age) ==
    LET age_val == ParseFloat(Strip(age))
    IN IF age_val # NoFloat /\ FloatEq(age_val, TRUE, 10) THEN "normal"
       ELSE IF /\ age_val # NoFloat
               /\ FloatGt(age_val, 0)
               /\ FloatLt(age_val, 1010)
            THEN "normal"
            ELSE "disabled"

save_button_state(gender, age) ==
    LET age_val == ParseFloat(Strip(age))
        gender_chosen == Strip(gender) # <<>>
    IN IF age_val # NoFloat /\ FloatEq(age_val, TRUE, 10) THEN "normal"
       ELSE IF /\ age_val # NoFloat
               /\ FloatGt(age_val, 0)
               /\ FloatLt(age_val, 1010)
               /\ gender_chosen
            THEN "normal"
            ELSE "disabled"

\* save_button_state, tabulated once over the texts the form of the model
\* holds and computed for any other.
SaveButtonTable == [g \in FormGenders, a \in FormAges |-> save_button_state(g, a)]

update_save_button_state(gender, age) ==
    IF gender \in FormGenders /\ age \in FormAges
    THEN SaveButtonTable[gender, age]
    ELSE save_button_state(gender, age)

(***************************************************************************)
(* _save_label                                                             *)
(***************************************************************************)
age_str(age) ==
    IF IsNumber(age) /\ FloatEq(ToFloat(age), TRUE, 10) THEN <<"-", "1">> ELSE NumStr(age)

save_label(d, cam, tid, gender, age) == Put(d, <<cam, tid>>, <<gender, age_str(age)>>)

(***************************************************************************)
(* _flow_images: the grid of image labels.  A label is placed in a row and *)
(* a column, at x = col * cell_width; its height and y depend on the       *)
(* pixels of the image, which the model does not hold.                     *)
(***************************************************************************)
min_img_width == 150

max(a, b) == IF a >= b THEN a ELSE b

\* A label display_current_track has created and _flow_images has not placed.
Unplaced == [placed |-> FALSE, row |-> 0, col |-> 0, x |-> 0]
Placed(row, col, x) == [placed |-> TRUE, row |-> row, col |-> col, x |-> x]
new_labels(n) == [j \in 1..n |-> Unplaced]

next_cell_mutant(row, col, cols) ==
    IF col + 1 > cols THEN <<row + 1, 0>> ELSE <<row, col + 1>>

\* col += 1; if col >= cols: col = 0; row += 1
next_cell(row, col, cols) ==
    IF col + 1 >= cols THEN <<row + 1, 0>> ELSE <<row, col + 1>>

\* The loop over the images, from image i of n on.
RECURSIVE PlaceFrom(_, _, _, _, _, _)
PlaceFrom(i, n, row, col, cols, cell_width) ==
    IF i >= n THEN <<>>
    ELSE LET cell == next_cell(row, col, cols)
         IN <<Placed(row, col, col * cell_width)>>
            \o PlaceFrom(i + 1, n, cell[1], cell[2], cols, cell_width)

flow_images(width, labels) ==
    IF width <= 1 THEN labels
    ELSE LET cols == max(1, width \div min_img_width)
             cell_width == width \div cols
         IN PlaceFrom(0, Len(labels), 0, 0, cols, cell_width)

(***************************************************************************)
(* display_current_track: the form and the progress bar it leaves          *)
(***************************************************************************)
InRange(i, n) == 0 <= i /\ i < n

Shown(i, tr, n, d) ==
    IF ~InRange(i, n)
    THEN [gender |-> gender_var, age |-> age_var, save |-> save_state, rects |-> track_rects,
          labels |-> <<>>]
    ELSE LET key == TrackKey(tr, i + 1)
             lab == IF Has(d, key) THEN Get(d, key) ELSE << <<>>, <<>> >>
         IN [gender |-> lab[1], age |-> lab[2],
             save |-> update_save_button_state(lab[1], lab[2]),
             rects |-> n,
             labels |-> flow_images(canvas_width, new_labels(Len(tr[i + 1][3])))]

display_current_track(i, tr, n, d) ==
    LET f == Shown(i, tr, n, d)
    IN /\ gender_var' = f.gender
       /\ age_var' = f.age
       /\ save_state' = f.save
       /\ track_rects' = f.rects
       /\ img_labels' = f.labels

(***************************************************************************)
(* __init__                                                                *)
(***************************************************************************)
InitWith(clean, trees, widths) ==
    \E d \in trees, width \in widths :
        LET tr == get_tracks(d)
        IN \E file \in (IF clean THEN CleanFiles ELSE InitialFiles(tr)) :
            LET loaded == load_existing_labels(file)
                first == InRange(0, Len(tr))
                lab == IF first /\ Has(loaded, TrackKey(tr, 1))
                       THEN Get(loaded, TrackKey(tr, 1))
                       ELSE << <<>>, <<>> >>
            IN /\ disk = d
               /\ tracks = tr
               /\ n_tracks = Len(tr)
               /\ labeled_data = loaded
               /\ current_track_index = 0
               /\ csv_file = (IF file.exists THEN file ELSE WriteCsv(<<>>))
               /\ gender_var = lab[1]
               /\ age_var = lab[2]
               /\ save_state = (IF first THEN update_save_button_state(lab[1], lab[2])
                                ELSE "normal")
               /\ track_rects = Len(tr)
               /\ canvas_width = width
               /\ img_labels = (IF first THEN flow_images(width, new_labels(Len(tr[1][3])))
                                ELSE <<>>)
               /\ last = Quiet

Init == InitWith(FALSE, Trees, {StartWidth})

\* The same program started on an absent or empty label file.
InitClean == InitWith(TRUE, Trees, {StartWidth})

\* The program started on the gallery, with a canvas of any width.
InitFlow == InitWith(TRUE, {TreeGallery}, 1..MaxWidth)

(***************************************************************************)
(* The form: the gender radio buttons (and the m / f shortcuts) and the    *)
(* age entry.  Each write runs _update_save_button_state through the trace *)
(* on the variable.                                                        *)
(***************************************************************************)
select_gender(g) ==
    /\ gender_var' = g
    /\ save_state' = update_save_button_state(g, age_var)
    /\ last' = Quiet
    /\ UNCHANGED <<canvas_width, disk, csv_file, tracks, n_tracks, labeled_data,
                   current_track_index, age_var, track_rects, img_labels>>

\* An edit of the age entry that NumericEntry accepts.
edit_age(text) ==
    /\ text # age_var
    /\ text \in AcceptedAgeTexts
    /\ age_var' = text
    /\ save_state' = update_save_button_state(gender_var, text)
    /\ last' = Quiet
    /\ UNCHANGED <<canvas_width, disk, csv_file, tracks, n_tracks, labeled_data,
                   current_track_index, gender_var, track_rects, img_labels>>

(***************************************************************************)
(* skip_track                                                              *)
(***************************************************************************)
\* self.tracks[i] of a Python list of length n: IndexError outside -n..n-1.
IndexOk(i, n) == -n <= i /\ i < n
At(tr, i) == IF i >= 0 THEN tr[i + 1] ELSE tr[Len(tr) + i + 1]

\* The gender and age skip_track hands to _save_label.
skip_label_mutant == <<gender_var, Int_(TRUE, 10)>>

skip_label == << <<>>, Int_(TRUE, 10)>>

skip_track_raises ==
    /\ ~IndexOk(current_track_index, Len(tracks))
    /\ last' = Ended("skip_track", "IndexError")
    /\ UNCHANGED <<canvas_width, disk, csv_file, tracks, n_tracks, labeled_data,
                   current_track_index, gender_var, age_var, save_state, track_rects, img_labels>>

skip_track_saves ==
    /\ IndexOk(current_track_index, Len(tracks))
    /\ LET t == At(tracks, current_track_index)
           d == save_label(labeled_data, t[1], t[2], skip_label[1], skip_label[2])
       IN /\ labeled_data' = d
          /\ csv_file' = WriteCsv(d)
          /\ current_track_index' = current_track_index + 1
          /\ IF current_track_index + 1 < n_tracks
             THEN display_current_track(current_track_index + 1, tracks, n_tracks, d)
             ELSE UNCHANGED <<gender_var, age_var, save_state, track_rects, img_labels>>
    /\ last' = Ended("skip_track", "ok")
    /\ UNCHANGED <<canvas_width, disk, tracks, n_tracks>>

skip_track == skip_track_raises \/ skip_track_saves

(***************************************************************************)
(* save_and_next                                                           *)
(***************************************************************************)
save_and_next_returns ==
    /\ ~InRange(current_track_index, n_tracks)
    /\ last' = Ended("save_and_next", "returned")
    /\ UNCHANGED <<canvas_width, disk, csv_file, tracks, n_tracks, labeled_data,
                   current_track_index, gender_var, age_var, save_state, track_rects, img_labels>>

save_and_next_saves_mutant ==
    /\ InRange(current_track_index, n_tracks)
    /\ LET t == tracks[current_track_index + 1]
           parsed == ParseFloat(Strip(age_var))
           age_val == IF parsed = NoFloat THEN Num(FALSE, 0) ELSE parsed
           d == save_label(labeled_data, t[1], t[2], gender_var, age_val)
       IN /\ labeled_data' = d
          /\ csv_file' = WriteCsv(d)
          /\ current_track_index' = current_track_index + 1
          /\ UNCHANGED <<gender_var, age_var, save_state, track_rects, img_labels>>
    /\ last' = Ended("save_and_next", "ok")
    /\ UNCHANGED <<canvas_width, disk, tracks, n_tracks>>

save_and_next_saves ==
    /\ InRange(current_track_index, n_tracks)
    /\ LET t == tracks[current_track_index + 1]
           parsed == ParseFloat(Strip(age_var))
           age_val == IF parsed = NoFloat THEN Num(FALSE, 0) ELSE parsed
           d == save_label(labeled_data, t[1], t[2], gender_var, age_val)
       IN /\ labeled_data' = d
          /\ csv_file' = WriteCsv(d)
          /\ current_track_index' = current_track_index + 1
          /\ IF current_track_index + 1 < n_tracks
             THEN display_current_track(current_track_index + 1, tracks, n_tracks, d)
             ELSE UNCHANGED <<gender_var, age_var, save_state, track_rects, img_labels>>
    /\ last' = Ended("save_and_next", "ok")
    /\ UNCHANGED <<canvas_width, disk, tracks, n_tracks>>

save_and_next == save_and_next_returns \/ save_and_next_saves

\* The Save & Next button runs its command only while it is enabled.
click_save_next ==
    /\ save_state = "normal"
    /\ save_and_next

\* _shortcut_save_next: the n key
shortcut_save_next ==
    /\ save_state = "normal"
    /\ save_and_next

(***************************************************************************)
(* prev_track                                                              *)
(***************************************************************************)
prev_track_shows ==
    /\ current_track_index - 1 >= 0
    /\ current_track_index' = current_track_index - 1
    /\ display_current_track(current_track_index - 1, tracks, n_tracks, labeled_data)
    /\ last' = Quiet
    /\ UNCHANGED <<canvas_width, disk, csv_file, tracks, n_tracks, labeled_data>>

prev_track_none_mutant ==
    /\ current_track_index - 1 < 0
    /\ current_track_index' = current_track_index - 1
    /\ last' = Quiet
    /\ UNCHANGED <<canvas_width, disk, csv_file, tracks, n_tracks, labeled_data,
                   gender_var, age_var, save_state, track_rects, img_labels>>

prev_track_none ==
    /\ current_track_index - 1 < 0
    /\ current_track_index' = 0
    /\ last' = Quiet
    /\ UNCHANGED <<canvas_width, disk, csv_file, tracks, n_tracks, labeled_data,
                   gender_var, age_var, save_state, track_rects, img_labels>>

prev_track == prev_track_shows \/ prev_track_none

(***************************************************************************)
(* _goto_track: value is what the spinbox holds, a 1-based index           *)
(***************************************************************************)
goto_accepts_mutant(value) == 0 <= value - 1 /\ value - 1 <= n_tracks

goto_accepts(value) == 0 <= value - 1 /\ value - 1 < n_tracks

goto_track_shows(value) ==
    /\ goto_accepts(value)
    /\ current_track_index' = value - 1
    /\ display_current_track(value - 1, tracks, n_tracks, labeled_data)
    /\ last' = Ended("goto_track", "ok")
    /\ UNCHANGED <<canvas_width, disk, csv_file, tracks, n_tracks, labeled_data>>

goto_track_warns(value) ==
    /\ ~goto_accepts(value)
    /\ last' = Ended("goto_track", "warning")
    /\ UNCHANGED <<canvas_width, disk, csv_file, tracks, n_tracks, labeled_data,
                   current_track_index, gender_var, age_var, save_state, track_rects, img_labels>>

goto_track(value) == goto_track_shows(value) \/ goto_track_warns(value)

(***************************************************************************)
(* The progress bar                                                        *)
(***************************************************************************)
\* _on_progress_click on the rectangle of track_i
on_progress_click(track_i) ==
    /\ current_track_index' = track_i
    /\ display_current_track(track_i, tracks, n_tracks, labeled_data)
    /\ last' = Quiet
    /\ UNCHANGED <<canvas_width, disk, csv_file, tracks, n_tracks, labeled_data>>

\* _on_progress_canvas_configure: _draw_progress_bar
on_progress_canvas_configure ==
    /\ track_rects' = n_tracks
    /\ last' = Quiet
    /\ UNCHANGED <<canvas_width, disk, csv_file, tracks, n_tracks, labeled_data,
                   current_track_index, gender_var, age_var, save_state, img_labels>>

(***************************************************************************)
(* _on_canvas_configure: the canvas now has this width; _flow_images       *)
(***************************************************************************)
on_canvas_configure(width) ==
    /\ canvas_width' = width
    /\ img_labels' = flow_images(width, img_labels)
    /\ last' = Quiet
    /\ UNCHANGED <<disk, csv_file, tracks, n_tracks, labeled_data,
                   current_track_index, gender_var, age_var, save_state, track_rects>>

(***************************************************************************)
(* remove_current_track                                                    *)
(***************************************************************************)
DelAt_mutant(tr, i) == SubSeq(tr, 1, Len(tr) - 1)

\* del self.tracks[i]
DelAt(tr, i) == SubSeq(tr, 1, i) \o SubSeq(tr, i + 2, Len(tr))

remove_returns ==
    /\ ~InRange(current_track_index, n_tracks)
    /\ last' = Ended("remove_current_track", "returned")
    /\ UNCHANGED <<canvas_width, disk, csv_file, tracks, n_tracks, labeled_data,
                   current_track_index, gender_var, age_var, save_state, track_rects, img_labels>>

\* What follows a shutil.rmtree that succeeded.
remove_finishes(key) ==
    LET tr == DelAt(tracks, current_track_index)
        n == Len(tr)
        d == IF Has(labeled_data, key) THEN Del(labeled_data, key) ELSE labeled_data
        i == IF current_track_index >= n THEN n - 1 ELSE current_track_index
    IN /\ tracks' = tr
       /\ n_tracks' = n
       /\ labeled_data' = d
       /\ csv_file' = (IF Has(labeled_data, key) THEN WriteCsv(d) ELSE csv_file)
       /\ current_track_index' = i
       /\ display_current_track(i, tr, n, d)

remove_deletes ==
    /\ InRange(current_track_index, n_tracks)
    /\ LET key == TrackKey(tracks, current_track_index + 1)
       IN /\ disk' = rmtree(disk, key)
          /\ remove_finishes(key)
    /\ last' = Ended("remove_current_track", "ok")
    /\ UNCHANGED canvas_width

remove_aborts_mutant ==
    /\ InRange(current_track_index, n_tracks)
    /\ remove_finishes(TrackKey(tracks, current_track_index + 1))
    /\ last' = Ended("remove_current_track", "rmtree failed")
    /\ UNCHANGED <<canvas_width, disk>>

\* shutil.rmtree raised: the error dialog, and return.
remove_aborts ==
    /\ InRange(current_track_index, n_tracks)
    /\ last' = Ended("remove_current_track", "rmtree failed")
    /\ UNCHANGED <<canvas_width, disk, csv_file, tracks, n_tracks, labeled_data,
                   current_track_index, gender_var, age_var, save_state, track_rects, img_labels>>

remove_current_track == remove_returns \/ remove_deletes \/ remove_aborts

(***************************************************************************)
(* The event loop                                                          *)
(***************************************************************************)
Next ==
    \/ \E g \in {Male, Female} : select_gender(g)
    \/ \E text \in AgeTexts : edit_age(text)
    \/ skip_track
    \/ click_save_next
    \/ shortcut_save_next
    \/ prev_track
    \/ \E value \in 0..MaxGoto : goto_track(value)
    \/ \E track_i \in 0..(track_rects - 1) : on_progress_click(track_i)
    \/ on_progress_canvas_configure
    \/ on_canvas_configure(canvas_width)
    \/ remove_current_track

\* The window is resized and the user moves between the tracks.
NextFlow ==
    \/ \E width \in 1..MaxWidth : on_canvas_configure(width)
    \/ \E track_i \in 0..(track_rects - 1) : on_progress_click(track_i)

Spec == Init /\ [][Next]_vars

SpecClean == InitClean /\ [][Next]_vars

SpecFlow == InitFlow /\ [][NextFlow]_vars

(***************************************************************************)
(* The claims                                                              *)
(***************************************************************************)
Skipped == Ended("skip_track", "ok")
Saved == Ended("save_and_next", "ok")
Removed == Ended("remove_current_track", "ok")
RemoveFailed == Ended("remove_current_track", "rmtree failed")
GotoWarned == Ended("goto_track", "warning")

CurrentKey == TrackKey(tracks, current_track_index + 1)
SkipLabel == << <<>>, <<"-", "1">> >>

\* The age text reads as a number equal to -1.
AgeIsMinusOne(age) == LET v == ParseFloat(age) IN v.kind = "num" /\ v.neg /\ v.mag = 10
\* The age text reads as a number above 0 and up to hi (in tenths), hi included
\* or not.
AgeWithin(age, hi, closed) ==
    LET v == ParseFloat(age)
    IN v.kind = "num" /\ ~v.neg /\ v.mag > 0 /\ (v.mag < hi \/ (closed /\ v.mag = hi))

\* C1: after any write to the age or gender field, Save & Next is enabled if
\* and only if the age reads as -1, or a gender is set and the age reads as a
\* number with 0 < age < 101; for any other input it is disabled.
C1_SaveButtonGate ==
    [][ (\/ gender_var' # gender_var
         \/ age_var' # age_var
         \/ \E g \in {Male, Female} : select_gender(g)
         \/ \E text \in AgeTexts : edit_age(text))
        => /\ save_state' \in {"normal", "disabled"}
           /\ save_state' = "normal"
              <=> \/ AgeIsMinusOne(age_var')
                  \/ gender_var' # <<>> /\ AgeWithin(age_var', 1010, FALSE) ]_vars

\* The user has typed " -1.0" with no gender set, and the button is enabled.
C1_Witness ==
    /\ age_var = <<" ", "-", "1", ".", "0">>
    /\ gender_var = <<>>
    /\ save_state = "normal"

\* C2: skip_track on the current track stores gender "" and age "-1" for its
\* key, whatever the form holds and whatever the state of the button, over any
\* label the track had.
C2_SkipStoresSkipLabel ==
    [][ (last' = Skipped /\ InRange(current_track_index, n_tracks))
        => /\ Has(labeled_data', CurrentKey)
           /\ Get(labeled_data', CurrentKey) = SkipLabel ]_vars

\* The last track was skipped while the form held a gender and the button was
\* disabled: nothing was displayed after it, so the form still holds both.
C2_Witness ==
    /\ last = Skipped
    /\ n_tracks > 0
    /\ current_track_index = n_tracks
    /\ gender_var = Male
    /\ save_state = "disabled"
    /\ Get(labeled_data, TrackKey(tracks, n_tracks)) = SkipLabel

AgeValid(age) == AgeIsMinusOne(age) \/ AgeWithin(age, 1000, TRUE)

\* C4: started on an absent or empty file, every label in the map and in the
\* file has an age that is -1 or lies in (0, 100].
C4_AgesValid ==
    /\ \A i \in 1..Len(labeled_data) : AgeValid(labeled_data[i][2][2])
    /\ LET d == load_existing_labels(csv_file)
       IN \A i \in 1..Len(d) : AgeValid(d[i][2][2])

\* The file is the header followed by exactly one row per item of the map, with
\* its values, and nothing else.
Mirrors(file, d) ==
    /\ file.exists
    /\ LET rows == reader(file.data)
       IN /\ Len(rows) = Len(d) + 1
          /\ rows[1] = Header
          /\ {rows[i] : i \in 2..Len(rows)}
             = {<<d[i][1][1], d[i][1][2], d[i][2][1], d[i][2][2]>> : i \in 1..Len(d)}

\* C5: after every completed save, skip or remove the file is the header and
\* one row per item of the map.
C5_FileMirrorsAfterEveryMutation ==
    [][ last' \in {Skipped, Saved, Removed} => Mirrors(csv_file', labeled_data') ]_vars

\* C5, amended: after every completed save or skip, and after every completed
\* remove of a track that had a label, the file is the header and one row per
\* item of the map; a remove of a track without a label leaves the map and the
\* file as they were.
C5_FileMirrorsAfterRewrite ==
    [][ /\ (\/ last' \in {Skipped, Saved}
            \/ last' = Removed /\ Has(labeled_data, CurrentKey))
           => Mirrors(csv_file', labeled_data')
        /\ (last' = Removed /\ ~Has(labeled_data, CurrentKey))
           => UNCHANGED <<csv_file, labeled_data>> ]_vars

\* Both tracks were labelled, the second by Save & Next, and the file holds them.
C5_Witness ==
    /\ last = Saved
    /\ Len(labeled_data) = 2
    /\ Mirrors(csv_file, labeled_data)

\* C6: after _save_label has written, reading the file back gives the map: the
\* gender and age just stored for the track, and those of every other track.
C6_RoundTrip ==
    last \in {Skipped, Saved} => load_existing_labels(csv_file) = labeled_data

\* A label with a fractional age was saved for a track whose names the writer
\* has to quote.
C6_Witness ==
    /\ last = Saved
    /\ Has(labeled_data, << <<"a", COMMA>>, <<QUOTE, "1">> >>)
    /\ Get(labeled_data, << <<"a", COMMA>>, <<QUOTE, "1">> >>)
       = <<Female, <<"1", "0", "0", ".", "5">> >>

\* C7: no user operation ends in an unhandled error.
C7_NoUnhandledError == last.result # "IndexError"

\* C8: when the deletion of the directory fails, the track list, n_tracks, the
\* label map, the current index and the file stay as they were.
C8_FailedRemoveChangesNothing ==
    [][ last' = RemoveFailed
        => UNCHANGED <<tracks, n_tracks, labeled_data, current_track_index, csv_file>> ]_vars

\* The deletion failed on the second of two tracks.
C8_Witness ==
    /\ last = RemoveFailed
    /\ n_tracks = 2
    /\ current_track_index = 1

\* A directory of track_id under camera_id that holds an image file.
Qualifies(d, cam, tid) ==
    /\ Dir(<<cam>>) \in d
    /\ Dir(<<cam, tid>>) \in d
    /\ \E e \in d : /\ ~e.isdir
                    /\ Len(e.path) = 3
                    /\ e.path[1] = cam
                    /\ e.path[2] = tid
                    /\ \E ext \in ImageExts : EndsWith(Lower(e.path[3]), ext)

KeyLess(k1, k2) == StrLess(k1[1], k2[1]) \/ (k1[1] = k2[1] /\ StrLess(k1[2], k2[2]))

\* C9: the track list holds exactly one entry per directory with an image file
\* that has not been removed, none for anything else, in the order of
\* camera_id and then track_id.
C9_TracksAreTheImageDirectories ==
    /\ \A i, j \in 1..Len(tracks) : i < j => KeyLess(TrackKey(tracks, i), TrackKey(tracks, j))
    /\ \A i \in 1..Len(tracks) : Qualifies(disk, tracks[i][1], tracks[i][2])
    /\ \A e \in disk :
           (Len(e.path) = 2 /\ Qualifies(disk, e.path[1], e.path[2]))
           => \E i \in 1..Len(tracks) : TrackKey(tracks, i) = e.path

\* After the removal of track "10" of camera "b", track "2" is listed, and the
\* directory without images beside it is not.
C9_Witness ==
    /\ last = Removed
    /\ Len(tracks) = 1
    /\ TrackKey(tracks, 1) = << <<"b">>, <<"2">> >>
    /\ Dir(<< <<"b">>, <<"e">> >>) \in disk

\* C10: a go-to-track request with an index outside 1..n_tracks changes
\* nothing; one with an index inside sets the current index to it minus 1.
C10_GotoTrack ==
    [][ \A value \in 0..MaxGoto :
            goto_track(value)
            => IF value \in 1..n_tracks
               THEN current_track_index' = value - 1
               ELSE UNCHANGED <<current_track_index, tracks, n_tracks, labeled_data,
                                csv_file, gender_var, age_var>> ]_vars

\* A request beyond the last of two tracks was refused on the second track.
C10_Witness ==
    /\ last = GotoWarned
    /\ n_tracks = 2
    /\ current_track_index = 1

\* The label the form shows for a track: the one stored for it, or empty fields.
StoredOrEmpty(d, key) == IF Has(d, key) THEN Get(d, key) ELSE << <<>>, <<>> >>

\* C12: save_and_next with the index i in range stores for track i the gender
\* field and the age field read as a number and written as text, leaves every
\* other label as it was, and moves the index to i + 1; when i + 1 < n_tracks
\* the form shows the stored label of track i + 1, or empty fields if it has
\* none.  With the index out of range it changes nothing.
C12_SaveAndNext ==
    [][ last'.op = "save_and_next"
        => IF InRange(current_track_index, n_tracks)
           THEN /\ Has(labeled_data', CurrentKey)
                /\ Get(labeled_data', CurrentKey)[1] = gender_var
                /\ ParseFloat(Get(labeled_data', CurrentKey)[2]).kind = "num"
                /\ ParseFloat(Get(labeled_data', CurrentKey)[2]) = ParseFloat(Strip(age_var))
                /\ Keys(labeled_data') = Keys(labeled_data) \cup {CurrentKey}
                /\ \A k \in Keys(labeled_data) \ {CurrentKey} :
                       Get(labeled_data', k) = Get(labeled_data, k)
                /\ current_track_index' = current_track_index + 1
                /\ current_track_index + 1 < n_tracks
                   => <<gender_var', age_var'>>
                      = StoredOrEmpty(labeled_data', TrackKey(tracks, current_track_index + 2))
                /\ UNCHANGED <<tracks, n_tracks>>
           ELSE UNCHANGED <<disk, csv_file, tracks, n_tracks, labeled_data,
                            current_track_index, gender_var, age_var, save_state>> ]_vars

\* The first of two tracks was saved as female, 50, stored as "50.0", and the
\* form was cleared for the second, which has no label.
C12_Witness ==
    /\ last = Saved
    /\ n_tracks = 2
    /\ current_track_index = 1
    /\ Has(labeled_data, TrackKey(tracks, 1))
    /\ Get(labeled_data, TrackKey(tracks, 1)) = <<Female, <<"5", "0", ".", "0">> >>
    /\ ~Has(labeled_data, TrackKey(tracks, 2))
    /\ gender_var = <<>>
    /\ age_var = <<>>

\* C13: whenever the track list is not empty the current index designates a
\* track of it, 0 <= current_track_index < n_tracks, and n_tracks is the length
\* of the track list.
C13_IndexDesignatesTrack ==
    /\ tracks # <<>> => InRange(current_track_index, n_tracks)
    /\ n_tracks = Len(tracks)

\* C13, amended: whenever the track list is not empty the current index is
\* between 0 and n_tracks, n_tracks included (the index after a save or a skip
\* of the last track, which designates no track), and n_tracks is the length of
\* the track list.
C13_IndexWithinOnePastEnd ==
    /\ tracks # <<>> => (0 <= current_track_index /\ current_track_index <= n_tracks)
    /\ n_tracks = Len(tracks)

\* The second of two tracks was saved: the index is 2, one past the last track.
C13_Witness ==
    /\ last = Saved
    /\ n_tracks = 2
    /\ Len(tracks) = 2
    /\ current_track_index = 2

\* C14: started on an absent or empty file, every stored label with the age -1
\* has an empty gender.
C14_SkippedHaveNoGender ==
    /\ \A i \in 1..Len(labeled_data) :
           AgeIsMinusOne(labeled_data[i][2][2]) => labeled_data[i][2][1] = <<>>
    /\ LET d == load_existing_labels(csv_file)
       IN \A i \in 1..Len(d) : AgeIsMinusOne(d[i][2][2]) => d[i][2][1] = <<>>

\* The column count the grid is to have for a canvas of this width.
GridCols(width) == IF width \div 150 >= 1 THEN width \div 150 ELSE 1

\* C11: for every canvas width above 1, with the minimum cell width 150, the
\* grid has max(1, floor(width / 150)) columns, never 0 (4 at width 620, 1 at
\* width 100), and the image at position i, counted from 0, is placed in row
\* floor(i / cols) and column i mod cols.
C11_GridColumns ==
    canvas_width > 1
    => LET cols == GridCols(canvas_width)
       IN /\ cols >= 1
          /\ canvas_width = 620 => cols = 4
          /\ canvas_width = 100 => cols = 1
          /\ \A j \in 1..Len(img_labels) :
                 /\ img_labels[j].placed
                 /\ img_labels[j].row = (j - 1) \div cols
                 /\ img_labels[j].col = (j - 1) % cols
          /\ {img_labels[j].col : j \in 1..Len(img_labels)} \subseteq 0..(cols - 1)
          /\ Len(img_labels) >= cols
             => {img_labels[j].col : j \in 1..Len(img_labels)} = 0..(cols - 1)

\* Five images on a canvas of width 620: four in the first row, the fifth at
\* the start of the second.
C11_Witness ==
    /\ canvas_width = 620
    /\ Len(img_labels) = 5
    /\ img_labels[4] = Placed(0, 3, 465)
    /\ img_labels[5] = Placed(1, 0, 0)

====
